---- MODULE Spec2Model ----
(***************************************************************************)
(* Model of the camera-monitoring application:                             *)
(*   - the capture / motion-gating / detection loop of the CameraFeed      *)
(*     component (src/unnamed/part_003),                                   *)
(*   - the SAM2 segmentation service (services/sam2Service.ts),            *)
(*   - the detection route's interpretation of the upstream response       *)
(*     (app/api/health/route.ts, second POST handler).                     *)
(*                                                                         *)
(* Units: confidences and thresholds are in percent (0.7 is 70, 0.15 is    *)
(* 15), so that the comparisons of the source are integer comparisons.     *)
(*                                                                         *)
(* An asynchronous function is cut at its awaits: one action runs the code *)
(* from one await to the next.  A callback (timer tick, click) runs the    *)
(* closure of the latest render, and a render is taken to follow every     *)
(* state update before the next event is handled; the values a call read   *)
(* before an await stay the ones it uses after it (they are kept in the    *)
(* call's record).                                                         *)
(***************************************************************************)
EXTENDS Integers, Sequences, FiniteSets, TLC

\* ------------------------------------------------------------------ bounds
MaxInv == 2        \* captureFrame invocations that can be suspended at once
MaxCaptures == 4   \* captures (frames grabbed) in one run
NPix == 8          \* pixels of the motion-comparison canvas (160*120 in the source)

\* ------------------------------------------------------- program constants
FrameBufferCap == 3          \* .slice(-3)
PixelDiffThreshold == 30     \* if (diff > 30)
MotionThresholdPct == 15     \* useState(0.15), compared as motionThreshold * 100
MinComplexFrames == 2        \* newFrameBuffer.length < 2

NoTarget == [none |-> TRUE]      \* watchTarget === null
NoImage == "noImage"             \* a null data URL
NoTimer == 0                     \* intervalRef.current === null

\* ------------------------------------------------------------------ helpers
Abs(x) == IF x < 0 THEN -x ELSE x

\* String.prototype.includes, on a description held as a sequence of words
Includes(description, word) == \E i \in 1..Len(description) : description[i] = word

\* Array.prototype.slice(-n)
SliceLast(s, n) == IF Len(s) <= n THEN s ELSE SubSeq(s, Len(s) - n + 1, Len(s))

\* ------------------------------------------------------------------- frames
\* A frame is a data URL; Pixels(f) is what drawImage/getImageData give for it
\* on the comparison canvas: NPix pixels <<r, g, b>>.  "moved" differs from
\* "dark" in two pixels by more than the per-pixel threshold and in one by less.
Frames == {"dark", "moved"}
StillFrames == {"dark"}          \* the frames of a scene in which nothing moves

Dark == <<0, 0, 0>>
Dim == <<10, 10, 10>>
Bright == <<255, 255, 255>>

Pixels(f) ==
  [i \in 1..NPix |->
     CASE f = "dark"  -> Dark
       [] f = "moved" -> IF i <= 2 THEN Bright ELSE IF i = 3 THEN Dim ELSE Dark
       [] f = "shifted" -> IF i = 1 THEN Bright ELSE Dark
       [] f = "flash" -> Bright
       [] f = "dim" -> Dim
       [] OTHER -> Dark]

\* The frames detectMotion can be given.  "shifted" differs from "dark" in one
\* pixel, "flash" in all of them, "dim" in all of them by exactly the per-pixel
\* threshold; "blank" is a data URL that holds no image ("data:,", what
\* canvas.toDataURL gives for a video that has no dimensions yet): an Image with
\* this src fires no load event.
MotionFrames == Frames \cup {"shifted", "flash", "dim", "blank"}

Loadable(f) == f # "blank"

\* ------------------------------------------------------------ watch targets
CameraTargets ==
  { [description |-> <<"person", "falling", "down">>, confidence |-> 70],
    [description |-> <<"dog", "leaving", "house">>, confidence |-> 70] }

VARIABLES
  \* CameraFeed component state
  isMonitoring,      \* prop isMonitoring (page state)
  watchTarget,       \* prop watchTarget (page state), NoTarget for null
  processingFrame,   \* useState(false): the in-flight guard
  motionDetection,   \* useState(true)
  lastFrame,         \* useState(null): NoImage for null
  frameBuffer,       \* useState([])
  lastCapturedImage, \* useState(null): the frame of the latest capture
  calls,             \* suspended captureFrame invocations
  intervalRef,       \* useRef(null): NoTimer or the id setInterval returned
  timers,            \* the interval timers that are active in the browser
  \* observers
  captures,          \* number of captures that grabbed a frame
  event              \* what the latest step did

camVars == <<isMonitoring, watchTarget, processingFrame, motionDetection,
             lastFrame, frameBuffer, lastCapturedImage, calls, intervalRef,
             timers, captures, event>>


IdleCall == [pc |-> "idle"]

\* ------------------------------------------------------- interval effect
\* useEffect(..., [isMonitoring, watchTarget, captureInterval, captureFrame]):
\* the cleanup of the previous run, then the body, after a render.

\* variant: a cleanup that leaves the timer running
EffectCleanupKeepsTimer(ts, ref) == ts

\* return () => { if (intervalRef.current) clearInterval(intervalRef.current) }
EffectCleanup(ts, ref) == IF ref # NoTimer THEN ts \ {ref} ELSE ts

\* the id setInterval returns: one that no active timer has
NewTimer(ts) == CHOOSE t \in 1..(Cardinality(ts) + 1) : t \notin ts

IntervalEffect ==
  LET cleaned == EffectCleanup(timers, intervalRef)
  IN IF isMonitoring' /\ watchTarget' # NoTarget
     THEN /\ intervalRef' = NewTimer(cleaned)
          /\ timers' = cleaned \cup {NewTimer(cleaned)}
     ELSE /\ timers' = IF intervalRef # NoTimer THEN cleaned \ {intervalRef} ELSE cleaned
          /\ intervalRef' = NoTimer

\* ----------------------------------------------------------- detectMotion
PixelDiff(p, q) == Abs(p[1] - q[1]) + Abs(p[2] - q[2]) + Abs(p[3] - q[3])

DiffPixels(f1, f2) ==
  Cardinality({i \in 1..NPix : PixelDiff(Pixels(f1)[i], Pixels(f2)[i]) > PixelDiffThreshold})

\* changePercent = diffPixels / totalPixels * 100 is kept as the fraction
\* num / den; hasMotion = changePercent > motionThreshold * 100.
FailOpenMotion == [hasMotion |-> TRUE, num |-> 100, den |-> 1]

MotionOverThreshold(num, den) == num > MotionThresholdPct * den

\* failed: no 2d context, or an exception inside the try block
DetectMotion(prev, cur, enabled, failed) ==
  IF prev = NoImage \/ ~enabled THEN FailOpenMotion
  ELSE IF failed THEN FailOpenMotion
  ELSE LET num == DiffPixels(prev, cur) * 100
           den == NPix
       IN [hasMotion |-> MotionOverThreshold(num, den), num |-> num, den |-> den]

\* One detectMotion invocation on its own.
VARIABLE mcall

NoMotionData == [none |-> TRUE]

IdleMotionCall ==
  [pc |-> "idle", lastFrame |-> NoImage, currentFrame |-> NoImage,
   motionDetection |-> TRUE, result |-> NoMotionData]

\* detectMotion up to await Promise.all([img1, img2]); ctx: getContext('2d')
\* gives a context
DetectMotionCall(prev, cur, enabled, ctx) ==
  /\ mcall.pc \in {"idle", "done"}
  /\ mcall' =
       IF prev = NoImage \/ ~enabled \/ ~ctx
       THEN [pc |-> "done", lastFrame |-> prev, currentFrame |-> cur,
             motionDetection |-> enabled,
             result |-> DetectMotion(prev, cur, enabled, ~ctx)]
       ELSE [pc |-> "loading", lastFrame |-> prev, currentFrame |-> cur,
             motionDetection |-> enabled, result |-> NoMotionData]

\* both images fired onload: the promises only resolve, in img.onload.
\* throws: an exception in drawImage/getImageData, which the catch block handles
ImagesLoaded(throws) ==
  /\ mcall.pc = "loading"
  /\ Loadable(mcall.lastFrame) /\ Loadable(mcall.currentFrame)
  /\ mcall' = [mcall EXCEPT
                 !.pc = "done",
                 !.result = DetectMotion(mcall.lastFrame, mcall.currentFrame,
                                         mcall.motionDetection, throws)]

MotInit == mcall = IdleMotionCall

\* ------------------------------------------------------------ captureFrame
IsComplexAction(description) ==
  \/ Includes(description, "falling")
  \/ Includes(description, "breaking")
  \/ Includes(description, "distress")
  \/ Includes(description, "suspicious")
  \/ Includes(description, "climbing")
  \/ Includes(description, "weapon")
  \/ Includes(description, "emergency")
  \/ Includes(description, "unconscious")
  \/ Includes(description, "collapsed")

\* variant: slice(0, 3), which keeps the oldest frames
NewFrameBufferKeepOldest(buffer, img) ==
  SubSeq(Append(buffer, img), 1, IF Len(buffer) < FrameBufferCap THEN Len(buffer) + 1 ELSE FrameBufferCap)

NewFrameBuffer(buffer, img) == SliceLast(Append(buffer, img), FrameBufferCap)

\* variant: waits one frame longer
NeedMoreFramesOffByOne(isComplex, buffer) == isComplex /\ Len(buffer) <= MinComplexFrames

NeedMoreFrames(isComplex, buffer) == isComplex /\ Len(buffer) < MinComplexFrames

\* variant: every request carries the current frame only
RequestFramesCurrentOnly(img, buffer, isComplex) == <<img>>

\* the frames of the request body of fetch('/api/detect')
RequestFrames(img, buffer, isComplex) == IF isComplex THEN buffer ELSE <<img>>

\* Observation of a step.  k: the capture (1 for the first one); frames: the
\* frames of the request, for a dispatch.
NoEvent ==
  [type |-> "none", k |-> 0, img |-> NoImage, complex |-> FALSE, gated |-> FALSE,
   motion |-> FailOpenMotion, frames |-> <<>>]

Other(type) == [NoEvent EXCEPT !.type = type]

Decided(c, motion, type) ==
  [type |-> type, k |-> c.k, img |-> c.img,
   complex |-> IsComplexAction(c.target.description),
   gated |-> c.gated, motion |-> motion,
   frames |-> IF type = "dispatched"
              THEN RequestFrames(c.img, c.buffer, IsComplexAction(c.target.description))
              ELSE <<>>]

\* variant: the early return without setLastFrame
SkipNoMotionStale(i, c, motion) ==
  /\ calls' = [calls EXCEPT ![i] = IdleCall]
  /\ event' = Decided(c, motion, "skipMotion")
  /\ UNCHANGED <<processingFrame, lastFrame>>

\* captureFrame on a motion-gate skip: setLastCapture, setLastFrame, return
SkipNoMotion(i, c, motion) ==
  /\ lastFrame' = c.img
  /\ calls' = [calls EXCEPT ![i] = IdleCall]
  /\ event' = Decided(c, motion, "skipMotion")
  /\ UNCHANGED processingFrame

\* captureFrame from setProcessingFrame(true) up to the await of fetch
Dispatch(i, c, motion) ==
  /\ lastFrame' = c.img
  /\ IF NeedMoreFrames(IsComplexAction(c.target.description), c.buffer)
     THEN /\ processingFrame' = FALSE
          /\ calls' = [calls EXCEPT ![i] = IdleCall]
          /\ event' = Decided(c, motion, "waitFrames")
     ELSE /\ processingFrame' = TRUE
          /\ calls' = [calls EXCEPT ![i] = [pc |-> "fetch", k |-> c.k, img |-> c.img]]
          /\ event' = Decided(c, motion, "dispatched")

\* the lowest free invocation record
FreeCall(i) == calls[i].pc = "idle" /\ \A j \in 1..(i - 1) : calls[j].pc # "idle"

\* the guard of captureFrame: if (!watchTarget || processingFrame) return
GuardRejects == watchTarget = NoTarget \/ processingFrame

\* captureFrame up to its first await.  img = NoImage: no screenshot available.
CaptureFrame(i, img) ==
  /\ FreeCall(i)
  /\ IF GuardRejects \/ img = NoImage
     THEN /\ event' = [Other("rejected") EXCEPT !.img = img]
          /\ UNCHANGED <<processingFrame, lastFrame, frameBuffer, lastCapturedImage,
                         calls, captures, isMonitoring, watchTarget, motionDetection,
                         intervalRef, timers>>
     ELSE /\ captures < MaxCaptures
          /\ UNCHANGED <<isMonitoring, watchTarget, motionDetection>>
          /\ IntervalEffect
          /\ LET c == [pc |-> "motion", k |-> captures + 1, img |-> img,
                       before |-> frameBuffer,
                       buffer |-> NewFrameBuffer(frameBuffer, img),
                       prev |-> lastFrame, target |-> watchTarget,
                       gated |-> motionDetection /\ lastFrame # NoImage]
             IN /\ frameBuffer' = c.buffer
                /\ lastCapturedImage' = img
                /\ captures' = captures + 1
                /\ IF c.gated
                   THEN /\ calls' = [calls EXCEPT ![i] = c]
                        /\ event' = Decided(c, FailOpenMotion, "started")
                        /\ UNCHANGED <<processingFrame, lastFrame>>
                   ELSE Dispatch(i, c, FailOpenMotion)

\* the interval callback: setInterval(captureFrame, ...), while a timer is active
Tick(i, img) ==
  /\ timers # {}
  /\ CaptureFrame(i, img)

\* the Test Capture button and the imperative handle
TestCapture(i, img) == CaptureFrame(i, img)

\* captureFrame resumed after await detectMotion(imageDataUrl)
MotionResolved(i, failed) ==
  /\ calls[i].pc = "motion"
  /\ LET c == calls[i]
         motionData == DetectMotion(c.prev, c.img, c.gated, failed)
     IN IF ~motionData.hasMotion
        THEN SkipNoMotion(i, c, motionData)
        ELSE Dispatch(i, c, motionData)
  /\ UNCHANGED <<isMonitoring, watchTarget, motionDetection, frameBuffer,
                 lastCapturedImage, captures>>
  /\ IntervalEffect

\* captureFrame resumed after await fetch(...): response.ok (onDetection is
\* called), an error status (which throws into the catch block) or a rejected
\* fetch; then finally.
FetchOutcomes == {"ok", "httpError", "throw"}

\* variant: the guard is reset after an ok response only
FetchResolvedNoFinally(i, outcome) ==
  /\ calls[i].pc = "fetch"
  /\ event' = [Other(IF outcome = "ok" THEN "onDetection" ELSE "fetchError")
                 EXCEPT !.k = calls[i].k, !.img = calls[i].img]
  /\ processingFrame' = (outcome # "ok")
  /\ calls' = [calls EXCEPT ![i] = IdleCall]
  /\ UNCHANGED <<isMonitoring, watchTarget, motionDetection, lastFrame,
                 frameBuffer, lastCapturedImage, captures>>
  /\ IntervalEffect

\* variant: the resolved call stays suspended at the fetch
FetchResolvedKeepsCall(i, outcome) ==
  /\ calls[i].pc = "fetch"
  /\ event' = [Other(IF outcome = "ok" THEN "onDetection" ELSE "fetchError")
                 EXCEPT !.k = calls[i].k, !.img = calls[i].img]
  /\ processingFrame' = FALSE
  /\ UNCHANGED <<isMonitoring, watchTarget, motionDetection, lastFrame,
                 frameBuffer, lastCapturedImage, captures, calls>>
  /\ IntervalEffect

FetchResolved(i, outcome) ==
  /\ calls[i].pc = "fetch"
  /\ event' = [Other(IF outcome = "ok" THEN "onDetection" ELSE "fetchError")
                 EXCEPT !.k = calls[i].k, !.img = calls[i].img]
  /\ processingFrame' = FALSE
  /\ calls' = [calls EXCEPT ![i] = IdleCall]
  /\ UNCHANGED <<isMonitoring, watchTarget, motionDetection, lastFrame,
                 frameBuffer, lastCapturedImage, captures>>
  /\ IntervalEffect

\* page: setWatchTarget
SetWatchTarget(t) ==
  /\ watchTarget # t
  /\ watchTarget' = t
  /\ event' = Other("config")
  /\ UNCHANGED <<isMonitoring, processingFrame, motionDetection, lastFrame,
                 frameBuffer, lastCapturedImage, calls, captures>>
  /\ IntervalEffect

\* target configuration: clearTarget, onWatchTargetChange(null)
ClearWatchTarget ==
  /\ watchTarget # NoTarget
  /\ watchTarget' = NoTarget
  /\ event' = Other("config")
  /\ UNCHANGED <<isMonitoring, processingFrame, motionDetection, lastFrame,
                 frameBuffer, lastCapturedImage, calls, captures>>
  /\ IntervalEffect

\* toggleMonitoring: needs a watch target
ToggleMonitoring ==
  /\ watchTarget # NoTarget
  /\ isMonitoring' = ~isMonitoring
  /\ event' = Other("config")
  /\ UNCHANGED <<watchTarget, processingFrame, motionDetection, lastFrame,
                 frameBuffer, lastCapturedImage, calls, captures>>
  /\ IntervalEffect

\* the Motion Filter button
ToggleMotionDetection ==
  /\ motionDetection' = ~motionDetection
  /\ event' = Other("config")
  /\ UNCHANGED <<isMonitoring, watchTarget, processingFrame, lastFrame,
                 frameBuffer, lastCapturedImage, calls, captures>>
  /\ IntervalEffect

CamInit ==
  /\ isMonitoring = FALSE
  /\ watchTarget = NoTarget
  /\ processingFrame = FALSE
  /\ motionDetection = TRUE
  /\ lastFrame = NoImage
  /\ frameBuffer = <<>>
  /\ lastCapturedImage = NoImage
  /\ calls = [i \in 1..MaxInv |-> IdleCall]
  /\ intervalRef = NoTimer
  /\ timers = {}
  /\ captures = 0
  /\ event = NoEvent

\* ====================================================== SAM2Service
\* bounds
MaxOps == 2        \* service calls that can be suspended at once
MaxEncodes == 2    \* encoder runs started in one run
MaxLoads == 2      \* successful model loads in one run

NoSession == 0     \* a session is named by the load (1, 2, ...) that created it
NoTensor == 0      \* a tensor is named by the encoder run (1, 2, ...) that made it

VARIABLES
  encoderSession,    \* NoSession or the session of a load
  decoderSession,
  released,          \* [encoder, decoder]: the sessions release() was called on
  loads,             \* successful model loads
  imageEmbeddings,   \* NoTensor or the encoder run it came from
  highResFeats0,
  highResFeats1,
  isModelLoaded,
  isLoading,
  ops,               \* suspended service calls
  encodes,           \* encoder runs started
  sevent             \* what the latest service step did

svcState == <<encoderSession, decoderSession, imageEmbeddings, highResFeats0,
              highResFeats1, isModelLoaded, isLoading>>

engVars == <<svcState, released, loads, ops, encodes, sevent>>

IdleOp == [op |-> "idle"]

FreeOp(j) == ops[j].op = "idle" /\ \A h \in 1..(j - 1) : ops[h].op # "idle"

SvcEvent(op, result) == [op |-> op, result |-> result]

\* isReady()
IsReady == isModelLoaded

\* ---------------------------------------------------------- initialize()
\* variant: the guard looks at isModelLoaded only
InitGuardLoadedOnly(loaded, loading) == loaded

\* if (this.isModelLoaded || this.isLoading) return
InitGuard(loaded, loading) == loaded \/ loading

\* variant: the demo branch returns without marking the service loaded
LoadedAfterDemoUnset(loaded) == loaded

\* this.isModelLoaded = true // Set as "loaded" for demo mode
LoadedAfterDemo(loaded) == TRUE

\* variant: isLoading is reset on success only
LoadingAfterInitNoFinally(failed) == failed

\* finally { this.isLoading = false }
LoadingAfterInit(failed) == FALSE

Initialize(j) ==
  /\ FreeOp(j)
  /\ IF InitGuard(isModelLoaded, isLoading)
     THEN /\ sevent' = SvcEvent("initialize", "returned")
          /\ UNCHANGED <<svcState, ops>>
     ELSE /\ isLoading' = TRUE
          /\ ops' = [ops EXCEPT ![j] = [op |-> "initialize", pc |-> "check"]]
          /\ sevent' = SvcEvent("initialize", "started")
          /\ UNCHANGED <<encoderSession, decoderSession, imageEmbeddings,
                         highResFeats0, highResFeats1, isModelLoaded>>
  /\ UNCHANGED <<released, loads, encodes>>

\* whether each model artifact can be fetched from its URL
ArtifactStates == [encoder : BOOLEAN, decoder : BOOLEAN]

\* checkModelsAvailable: a HEAD request for the encoder URL, response.ok, and
\* false when the request throws
CheckModelsAvailable(artifacts) == artifacts.encoder

\* after await this.checkModelsAvailable(); gpu: useWebGPU && 'gpu' in navigator
InitChecked(j, artifacts, gpu) ==
  /\ ops[j].op = "initialize" /\ ops[j].pc = "check"
  /\ IF ~CheckModelsAvailable(artifacts)
     THEN /\ isModelLoaded' = LoadedAfterDemo(isModelLoaded)
          /\ isLoading' = LoadingAfterInit(FALSE)
          /\ ops' = [ops EXCEPT ![j] = IdleOp]
          /\ sevent' = SvcEvent("initialize", "readyDemo")
     ELSE /\ ops' = [ops EXCEPT ![j] = [op |-> "initialize",
                                       pc |-> IF gpu THEN "gpu" ELSE "load",
                                       artifacts |-> artifacts]]
          /\ sevent' = SvcEvent("initialize", "probed")
          /\ UNCHANGED <<isModelLoaded, isLoading>>
  /\ UNCHANGED <<encoderSession, decoderSession, imageEmbeddings, highResFeats0,
                 highResFeats1, released, loads, encodes>>

\* after await navigator.gpu.requestAdapter(): webgpu, or wasm on no adapter or error
InitAdapter(j) ==
  /\ ops[j].op = "initialize" /\ ops[j].pc = "gpu"
  /\ ops' = [ops EXCEPT ![j].pc = "load"]
  /\ sevent' = SvcEvent("initialize", "provider")
  /\ UNCHANGED <<svcState, released, loads, encodes>>

\* after await Promise.all([loadEncoderModel, loadDecoderModel])
\* InferenceSession.create of an artifact that cannot be fetched rejects
InitLoaded(j, loaded) ==
  /\ ops[j].op = "initialize" /\ ops[j].pc = "load"
  /\ loaded => (ops[j].artifacts.encoder /\ ops[j].artifacts.decoder)
  /\ IF loaded
     THEN /\ loads < MaxLoads
          /\ loads' = loads + 1
          /\ encoderSession' = loads + 1
          /\ decoderSession' = loads + 1
          /\ isModelLoaded' = TRUE
          /\ sevent' = SvcEvent("initialize", "readyReal")
     ELSE /\ sevent' = SvcEvent("initialize", "failed")
          /\ UNCHANGED <<encoderSession, decoderSession, isModelLoaded, loads>>
  /\ isLoading' = LoadingAfterInit(~loaded)
  /\ ops' = [ops EXCEPT ![j] = IdleOp]
  /\ UNCHANGED <<imageEmbeddings, highResFeats0, highResFeats1, released, encodes>>

\* initializeSAM2(config): with a config it returns a new SAM2Service, whose
\* isModelLoaded is false, without initializing it; without one it awaits
\* initialize() of the singleton
InitializeSAM2(j, config) ==
  IF config
  THEN /\ FreeOp(j)
       /\ sevent' = SvcEvent("initializeSAM2", "newInstance")
       /\ UNCHANGED <<svcState, ops, released, loads, encodes>>
  ELSE Initialize(j)

\* ---------------------------------------------------------- encodeImage()
\* variant: a service that is loading counts as initialized
NotInitializedIgnoresLoading(loaded, loading) == ~loaded /\ ~loading

\* if (!this.isModelLoaded) throw new Error('SAM2 not initialized ...')
NotInitialized(loaded, loading) == ~loaded

\* variant: the second feature map is not stored
StoreEmbeddingsPartial(run) ==
  [imageEmbeddings |-> run, highResFeats0 |-> run, highResFeats1 |-> NoTensor]

\* the three outputs of one encoder run
StoreEmbeddings(run) ==
  [imageEmbeddings |-> run, highResFeats0 |-> run, highResFeats1 |-> run]

EncodeImage(j) ==
  /\ FreeOp(j)
  /\ IF NotInitialized(isModelLoaded, isLoading)
     THEN /\ sevent' = SvcEvent("encodeImage", "notInitialized")
          /\ UNCHANGED <<ops, encodes>>
     ELSE IF encoderSession = NoSession
     THEN /\ sevent' = SvcEvent("encodeImage", "noop")
          /\ UNCHANGED <<ops, encodes>>
     ELSE /\ encodes < MaxEncodes
          /\ encodes' = encodes + 1
          /\ ops' = [ops EXCEPT ![j] = [op |-> "encodeImage", run |-> encodes + 1]]
          /\ sevent' = SvcEvent("encodeImage", "started")
  /\ UNCHANGED <<svcState, released, loads>>

\* variant: a failed encoder run marks the service as not loaded
EncodeDoneResets(j, ok) ==
  /\ ops[j].op = "encodeImage"
  /\ IF ok
     THEN LET t == StoreEmbeddings(ops[j].run) IN
          /\ imageEmbeddings' = t.imageEmbeddings
          /\ highResFeats0' = t.highResFeats0
          /\ highResFeats1' = t.highResFeats1
          /\ sevent' = SvcEvent("encodeImage", "ok")
          /\ UNCHANGED isModelLoaded
     ELSE /\ sevent' = SvcEvent("encodeImage", "failed")
          /\ isModelLoaded' = FALSE
          /\ UNCHANGED <<imageEmbeddings, highResFeats0, highResFeats1>>
  /\ ops' = [ops EXCEPT ![j] = IdleOp]
  /\ UNCHANGED <<encoderSession, decoderSession, isLoading, released, loads, encodes>>

\* variant: a failed encoder run drops the tensors cached before
EncodeDoneClearsCache(j, ok) ==
  /\ ops[j].op = "encodeImage"
  /\ IF ok
     THEN LET t == StoreEmbeddings(ops[j].run) IN
          /\ imageEmbeddings' = t.imageEmbeddings
          /\ highResFeats0' = t.highResFeats0
          /\ highResFeats1' = t.highResFeats1
          /\ sevent' = SvcEvent("encodeImage", "ok")
     ELSE /\ sevent' = SvcEvent("encodeImage", "failed")
          /\ imageEmbeddings' = NoTensor
          /\ highResFeats0' = NoTensor
          /\ highResFeats1' = NoTensor
  /\ ops' = [ops EXCEPT ![j] = IdleOp]
  /\ UNCHANGED <<encoderSession, decoderSession, isModelLoaded, isLoading,
                 released, loads, encodes>>

\* after await this.encoderSession.run(...)
EncodeDone(j, ok) ==
  /\ ops[j].op = "encodeImage"
  /\ IF ok
     THEN LET t == StoreEmbeddings(ops[j].run) IN
          /\ imageEmbeddings' = t.imageEmbeddings
          /\ highResFeats0' = t.highResFeats0
          /\ highResFeats1' = t.highResFeats1
          /\ sevent' = SvcEvent("encodeImage", "ok")
     ELSE /\ sevent' = SvcEvent("encodeImage", "failed")
          /\ UNCHANGED <<imageEmbeddings, highResFeats0, highResFeats1>>
  /\ ops' = [ops EXCEPT ![j] = IdleOp]
  /\ UNCHANGED <<encoderSession, decoderSession, isModelLoaded, isLoading,
                 released, loads, encodes>>

\* -------------------------------------------------------------- segment()
\* canvas: document.querySelector('canvas') finds one
Segment(j, canvas) ==
  /\ FreeOp(j)
  /\ IF NotInitialized(isModelLoaded, isLoading)
     THEN /\ sevent' = SvcEvent("segment", "notInitialized")
          /\ UNCHANGED ops
     ELSE IF decoderSession = NoSession \/ imageEmbeddings = NoTensor
     THEN /\ sevent' = SvcEvent("segment", IF canvas THEN "demo" ELSE "noCanvas")
          /\ UNCHANGED ops
     ELSE /\ ops' = [ops EXCEPT ![j] =
                      [op |-> "segment", image_embed |-> imageEmbeddings,
                       high_res_feats_0 |-> highResFeats0,
                       high_res_feats_1 |-> highResFeats1]]
          /\ sevent' = SvcEvent("segment", "started")
  /\ UNCHANGED <<svcState, released, loads, encodes>>

\* after await this.decoderSession.run(...)
SegmentDone(j, ok) ==
  /\ ops[j].op = "segment"
  /\ ops' = [ops EXCEPT ![j] = IdleOp]
  /\ sevent' = SvcEvent("segment", IF ok THEN "ok" ELSE "failed")
  /\ UNCHANGED <<svcState, released, loads, encodes>>

\* -------------------------------------------------------------- dispose()
\* InferenceSession.release() frees the session when it is called and rejects
\* when the session was released before.

\* variant: a dispose that leaves the cached tensors in place
DisposeFinishKeepsTensors(j) ==
  /\ isModelLoaded' = FALSE
  /\ ops' = [ops EXCEPT ![j] = IdleOp]
  /\ sevent' = SvcEvent("dispose", "done")
  /\ UNCHANGED <<imageEmbeddings, highResFeats0, highResFeats1>>

\* the tail of dispose: clear the tensors, isModelLoaded = false
DisposeFinish(j) ==
  /\ imageEmbeddings' = NoTensor
  /\ highResFeats0' = NoTensor
  /\ highResFeats1' = NoTensor
  /\ isModelLoaded' = FALSE
  /\ ops' = [ops EXCEPT ![j] = IdleOp]
  /\ sevent' = SvcEvent("dispose", "done")

\* release() rejects: dispose throws where it stands
DisposeThrows(j) ==
  /\ ops' = [ops EXCEPT ![j] = IdleOp]
  /\ sevent' = SvcEvent("dispose", "failed")
  /\ UNCHANGED <<imageEmbeddings, highResFeats0, highResFeats1, isModelLoaded, released>>

\* if (this.decoderSession) { await this.decoderSession.release() ...
DisposeDecoder(j) ==
  IF decoderSession = NoSession
  THEN DisposeFinish(j) /\ UNCHANGED released
  ELSE IF decoderSession \in released.decoder
  THEN DisposeThrows(j)
  ELSE /\ released' = [released EXCEPT !.decoder = @ \cup {decoderSession}]
       /\ ops' = [ops EXCEPT ![j] = [op |-> "dispose", pc |-> "decoder"]]
       /\ sevent' = SvcEvent("dispose", "releasing")
       /\ UNCHANGED <<imageEmbeddings, highResFeats0, highResFeats1, isModelLoaded>>

Dispose(j) ==
  /\ FreeOp(j)
  /\ IF encoderSession = NoSession
     THEN DisposeDecoder(j)
     ELSE IF encoderSession \in released.encoder
     THEN DisposeThrows(j)
     ELSE /\ released' = [released EXCEPT !.encoder = @ \cup {encoderSession}]
          /\ ops' = [ops EXCEPT ![j] = [op |-> "dispose", pc |-> "encoder"]]
          /\ sevent' = SvcEvent("dispose", "releasing")
          /\ UNCHANGED <<imageEmbeddings, highResFeats0, highResFeats1, isModelLoaded>>
  /\ UNCHANGED <<encoderSession, decoderSession, isLoading, loads, encodes>>

\* after await this.encoderSession.release()
DisposeEncoderReleased(j) ==
  /\ ops[j].op = "dispose" /\ ops[j].pc = "encoder"
  /\ encoderSession' = NoSession
  /\ DisposeDecoder(j)
  /\ UNCHANGED <<decoderSession, isLoading, loads, encodes>>

\* after await this.decoderSession.release()
DisposeDecoderReleased(j) ==
  /\ ops[j].op = "dispose" /\ ops[j].pc = "decoder"
  /\ decoderSession' = NoSession
  /\ DisposeFinish(j)
  /\ UNCHANGED <<encoderSession, released, isLoading, loads, encodes>>

EngInit ==
  /\ encoderSession = NoSession
  /\ decoderSession = NoSession
  /\ imageEmbeddings = NoTensor
  /\ highResFeats0 = NoTensor
  /\ highResFeats1 = NoTensor
  /\ isModelLoaded = FALSE
  /\ isLoading = FALSE
  /\ released = [encoder |-> {}, decoder |-> {}]
  /\ loads = 0
  /\ ops = [j \in 1..MaxOps |-> IdleOp]
  /\ encodes = 0
  /\ sevent = SvcEvent("none", "none")

\* =========================================================== detect route
\* POST /api/detect (app/api/health/route.ts, second handler).  A JSON value is
\* a record tagged with its JavaScript type.
Undefined == [undefined |-> TRUE]
Bool(b) == [bool |-> b]
Num(n) == [num |-> n]
Str(s) == [str |-> s]

TypeOf(x) ==
  IF "bool" \in DOMAIN x THEN "boolean"
  ELSE IF "num" \in DOMAIN x THEN "number"
  ELSE IF "str" \in DOMAIN x THEN "string"
  ELSE "undefined"

\* ToBoolean
Truthy(x) ==
  CASE TypeOf(x) = "boolean" -> x.bool
    [] TypeOf(x) = "number"  -> x.num # 0
    [] TypeOf(x) = "string"  -> x.str # ""
    [] OTHER -> FALSE

\* String.prototype.toLowerCase, word by word
LowerWord(w) ==
  CASE w = "Falling" -> "falling"
    [] w = "WEAPON"  -> "weapon"
    [] w = "Yes"     -> "yes"
    [] OTHER -> w

ToLowerCase(text) == [i \in 1..Len(text) |-> LowerWord(text[i])]

FallbackDetectedConfidence == 60   \* confidence: detected ? 0.6 : 0.1
FallbackConfidence == 10
DefaultConfidence == 10            \* result.confidence = 0.1

NoRequest == [none |-> TRUE]
NoResponse == [status |-> 0]
BadBody == [bad |-> TRUE]          \* request.json() rejects

DetectTargets ==
  [ description : { <<"person", "Falling">>, <<"suspicious", "person">>, <<"red", "car">> },
    confidence : {10, 60, 70} ]

DetectRequests ==
  [ image : BOOLEAN, target : DetectTargets \cup {NoTarget}, isComplexAction : BOOLEAN ]

ApiKeys == {"missing", "badFormat", "ok"}

\* what JSON.parse gives for the matched text: an object, or a value that is
\* not an object (true, 5, null, "text")
NotAnObject == [primitive |-> TRUE]
NoJson == [nojson |-> TRUE]        \* JSON.parse throws

UpstreamObjects ==
  [ detected : {Bool(TRUE), Bool(FALSE), Str("yes"), Undefined},
    confidence : {Num(0), Num(50), Num(60), Num(70), Num(95), Str("high"), Undefined},
    urgency : {Undefined, Str("high"), Str("low"), Str("critical")},
    recommended_action : {Undefined, Str("act")} ]

UpstreamTexts ==
  { <<"nothing", "found">>, <<"Yes", "person", "seen">>, <<"possible", "WEAPON">>,
    <<"target", "detected">> }

\* the outcomes of openai.chat.completions.create
UpstreamOutcomes ==
  { [kind |-> "throw"], [kind |-> "empty"] }
    \cup { [kind |-> "content", json |-> NotAnObject, text |-> <<>>] }
    \cup { [kind |-> "content", json |-> o, text |-> <<>>] : o \in UpstreamObjects }
    \cup { [kind |-> "content", json |-> NoJson, text |-> t] : t \in UpstreamTexts }

VARIABLES
  request,     \* the request being handled, NoRequest before the first
  rpc,         \* "idle", "openai" (awaiting the upstream call) or "done"
  response     \* the response sent for request

detVars == <<request, rpc, response>>

ErrorResponse(status, error) == [status |-> status, error |-> error]

\* the catch (parseError) branch
FallbackResult(text, isComplexAction) ==
  LET content == ToLowerCase(text)
      detected == \/ Includes(content, "true")
                  \/ Includes(content, "detected")
                  \/ Includes(content, "yes")
                  \/ Includes(content, "falling")
                  \/ Includes(content, "emergency")
                  \/ Includes(content, "weapon")
  IN [ detected |-> Bool(detected),
       confidence |-> Num(IF detected THEN FallbackDetectedConfidence ELSE FallbackConfidence),
       urgency |-> Str(IF detected /\ isComplexAction THEN "medium" ELSE "low"),
       recommended_action |-> Undefined ]

ParseResult(outcome, isComplexAction) ==
  IF outcome.json = NoJson THEN FallbackResult(outcome.text, isComplexAction)
  ELSE outcome.json

\* typeof result.detected !== 'boolean', typeof result.confidence !== 'number'
ValidateResult(result) ==
  [result EXCEPT
     !.detected = IF TypeOf(@) # "boolean" THEN Bool(FALSE) ELSE @,
     !.confidence = IF TypeOf(@) # "number" THEN Num(DefaultConfidence) ELSE @]

AutoUrgency(result, target) ==
  IF ~Truthy(result.urgency) /\ result.detected.bool
  THEN LET description == ToLowerCase(target.description)
       IN [result EXCEPT !.urgency =
             IF \/ Includes(description, "falling")
                \/ Includes(description, "weapon")
                \/ Includes(description, "breaking")
                \/ Includes(description, "emergency")
                \/ Includes(description, "collapsed")
                \/ Includes(description, "unconscious")
             THEN Str("high")
             ELSE IF \/ Includes(description, "suspicious")
                     \/ Includes(description, "distress")
                     \/ Includes(description, "climbing")
             THEN Str("medium")
             ELSE Str("low")]
  ELSE result

AutoAction(result, target) ==
  IF ~Truthy(result.recommended_action) /\ result.detected.bool /\ result.urgency = Str("high")
  THEN LET description == ToLowerCase(target.description)
       IN [result EXCEPT !.recommended_action =
             IF Includes(description, "falling") \/ Includes(description, "collapsed")
             THEN Str("check person")
             ELSE IF Includes(description, "weapon") THEN Str("alert security")
             ELSE IF Includes(description, "breaking") THEN Str("secure area")
             ELSE IF Includes(description, "emergency") THEN Str("call emergency services")
             ELSE Str("investigate")]
  ELSE result

ApplyThresholdNever(result, target) == result

\* if (result.confidence < target.confidence) result.detected = false
ApplyThreshold(result, target) ==
  IF result.confidence.num < target.confidence
  THEN [result EXCEPT !.detected = Bool(FALSE)]
  ELSE result

\* finalResult; rawResponse is debug.rawResponse, the upstream content
FinalResult(result, originalDetected, rawResponse) ==
  [ status |-> 200,
    rawResponse |-> rawResponse,
    detected |-> result.detected.bool,
    confidence |-> result.confidence.num,
    urgency |-> IF Truthy(result.urgency) THEN result.urgency.str ELSE "low",
    recommended_action |-> result.recommended_action,
    originalDetected |-> originalDetected,
    thresholdApplied |-> originalDetected # result.detected.bool ]

\* from the upstream outcome to the response
Respond(req, outcome) ==
  IF outcome.kind = "throw" THEN ErrorResponse(500, "upstream call failed")
  ELSE IF outcome.kind = "empty" THEN ErrorResponse(500, "No response from OpenAI")
  ELSE IF outcome.json = NotAnObject THEN ErrorResponse(500, "TypeError")
  ELSE LET parsed == ParseResult(outcome, req.isComplexAction)
           valid == ValidateResult(parsed)
           urgent == AutoUrgency(valid, req.target)
           acted == AutoAction(urgent, req.target)
           final == ApplyThreshold(acted, req.target)
       IN FinalResult(final, acted.detected.bool, outcome)

\* POST up to the await of the upstream call
Post(req, key) ==
  /\ rpc \in {"idle", "done"}
  /\ request' = req
  /\ IF req = BadBody
     THEN rpc' = "done" /\ response' = ErrorResponse(500, "invalid body")
     ELSE IF ~req.image \/ req.target = NoTarget
     THEN rpc' = "done" /\ response' = ErrorResponse(400, "Missing image or target data")
     ELSE IF key = "missing"
     THEN rpc' = "done" /\ response' = ErrorResponse(500, "OpenAI API key not configured")
     ELSE IF key = "badFormat"
     THEN rpc' = "done" /\ response' = ErrorResponse(500, "Invalid OpenAI API key format")
     ELSE rpc' = "openai" /\ response' = NoResponse

\* after await openai.chat.completions.create
UpstreamResolved(outcome) ==
  /\ rpc = "openai"
  /\ response' = Respond(request, outcome)
  /\ rpc' = "done"
  /\ UNCHANGED request

DetInit ==
  /\ request = NoRequest
  /\ rpc = "idle"
  /\ response = NoResponse

\* ============================================ SAM2Segmentation component
MaxClicks == 3     \* clicks accepted between two clears
MaxPrompts == 2    \* prompt points of one demo segmentation
MaxMasks == 2      \* masks in one decoder output
GridW == 2         \* width of the image and of every mask, in pixels
GridH == 2         \* height of the image and of every mask, in pixels

NotFound == 0      \* indexOf(...) === -1 (sequences here are indexed from 1)

\* canvas positions a click can land on (x, y)
ClickPositions == {<<0, 0>>, <<1, 1>>}

\* event.button of a click: 0 is the left button, 2 the right one
Buttons == {0, 2}

\* label: event.button === 2 ? 0 : 1
ButtonLabel(button) == IF button = 2 THEN 0 ELSE 1

NewPoint(pos, button) == [x |-> pos[1], y |-> pos[2], label |-> ButtonLabel(button)]

PromptPoints == {NewPoint(pos, b) : pos \in ClickPositions, b \in Buttons}

UpdatedPointsOnlyNew(points, newPoint) == <<newPoint>>

\* const updatedPoints = [...clickPoints, newPoint]
UpdatedPoints(points, newPoint) == Append(points, newPoint)

\* pointCoords[idx * 2] = point.x; pointCoords[idx * 2 + 1] = point.y
PointCoords(points) ==
  [n \in 1..(2 * Len(points)) |->
     IF n % 2 = 1 THEN points[(n + 1) \div 2].x ELSE points[n \div 2].y]

\* pointLabels[idx] = point.label
PointLabels(points) == [n \in 1..Len(points) |-> points[n].label]

MaxImages == 2     \* frames the camera component hands to the segmentation component
MaxOrphans == 1    \* pipelines of unmounted component instances still in flight

VARIABLES
  mounted,          \* sam2Enabled && lastCapturedImage: the component is rendered
  isInitialized,    \* useState(false)
  isInitializing,   \* useState(false)
  imageDataUrl,     \* the prop: lastCapturedImage of the camera component (1, 2, ...)
  clickPoints,      \* useState<SAM2Point[]>([])
  isProcessing,     \* useState(false)
  segRun,           \* the performSegmentation call suspended at an await
  orphans,          \* performSegmentation calls of instances since unmounted
  encoderRan,       \* the image the encoder last ran on (0: none)
  uievent,          \* what the last step of the component did
  acceptedClicks,   \* the clicks accepted since the last clear, in click order
  pointImages       \* for each point of clickPoints, the image it was clicked on

uiVars == <<mounted, isInitialized, isInitializing, imageDataUrl, clickPoints,
            isProcessing, segRun, orphans, encoderRan, uievent, acceptedClicks,
            pointImages>>

IdleRun == [pc |-> "idle", points |-> <<>>, accepted |-> <<>>,
            image |-> 0, pointImages |-> <<>>]

UiOther(what) == [type |-> what, points |-> <<>>, real |-> FALSE,
                  coords |-> <<>>, labels |-> <<>>]

\* sam2Service.segment(points): the decoder's point tensors are filled from
\* the points when real models are loaded; the demo path passes the points on
SegmentCall(points, real) ==
  [type |-> "segment", points |-> points, real |-> real,
   coords |-> IF real THEN PointCoords(points) ELSE <<>>,
   labels |-> IF real THEN PointLabels(points) ELSE <<>>]

\* the auto-init effect: if (enabled && !isInitialized && !isInitializing),
\* run again whenever one of the three changes
AutoInitStarts(enabled, initialized, initializing) ==
  enabled /\ ~initialized /\ ~initializing

\* initializeSAM2Model has run to its end.  ready: initialize() resolved and
\* isReady() is true, setIsInitialized(true).  Otherwise initialize() threw
\* (or left the service not ready): setIsInitialized(false), and in both
\* cases finally setIsInitializing(false); the effect then runs on the new
\* state (enabled is true whenever the component is rendered).
InitializeSAM2Model(ready) ==
  /\ mounted
  /\ isInitializing
  /\ isInitialized' = ready
  /\ isInitializing' = AutoInitStarts(mounted, ready, FALSE)
  /\ uievent' = UiOther(IF ready THEN "initialized"
                        ELSE IF AutoInitStarts(mounted, ready, FALSE)
                        THEN "initRetried" ELSE "initFailed")
  /\ UNCHANGED <<mounted, imageDataUrl, clickPoints, isProcessing, segRun, orphans,
                 encoderRan, acceptedClicks, pointImages>>

\* performSegmentation(points) up to its first await
PerformSegmentation(points, serviceReady) ==
  IF Len(points) = 0
  THEN /\ uievent' = UiOther("skipped")
       /\ UNCHANGED <<isProcessing, segRun>>
  ELSE IF ~serviceReady
  THEN /\ uievent' = UiOther("notReady")
       /\ UNCHANGED <<isProcessing, segRun>>
  ELSE /\ isProcessing' = TRUE
       /\ segRun' = [pc |-> "convert", points |-> points,
                     accepted |-> acceptedClicks',
                     image |-> imageDataUrl, pointImages |-> pointImages']
       /\ uievent' = UiOther("processing")

\* !!imageDataUrl
HasImage == imageDataUrl >= 1

\* if (!isInitialized || !imageDataUrl || isProcessing) return
ClickIgnored(initialized, hasImage, processing) == ~initialized \/ ~hasImage \/ processing

\* handleCanvasClick; serviceReady is sam2Service.isReady() as
\* performSegmentation reads it
CanvasClick(pos, button, serviceReady) ==
  /\ mounted
  /\ Len(clickPoints) < MaxClicks
  /\ IF ClickIgnored(isInitialized, HasImage, isProcessing)
     THEN /\ uievent' = UiOther("ignored")
          /\ UNCHANGED <<clickPoints, isProcessing, segRun, acceptedClicks, pointImages>>
     ELSE LET updatedPoints == UpdatedPoints(clickPoints, NewPoint(pos, button))
          IN /\ clickPoints' = updatedPoints
             /\ acceptedClicks' = Append(acceptedClicks, NewPoint(pos, button))
             /\ pointImages' = Append(pointImages, imageDataUrl)
             /\ PerformSegmentation(updatedPoints, serviceReady)
  /\ UNCHANGED <<mounted, isInitialized, isInitializing, imageDataUrl, orphans, encoderRan>>

\* the finally block of performSegmentation
SegmentationFinally ==
  /\ isProcessing' = FALSE
  /\ segRun' = IdleRun

\* await SAM2Service.screenshotToImageData(imageDataUrl) has settled
ConvertResolved(ok) ==
  /\ segRun.pc = "convert"
  /\ IF ok
     THEN /\ segRun' = [segRun EXCEPT !.pc = "encode"]
          /\ uievent' = UiOther("converted")
          /\ UNCHANGED isProcessing
     ELSE /\ SegmentationFinally
          /\ uievent' = UiOther("failed")
  /\ UNCHANGED <<mounted, isInitialized, isInitializing, imageDataUrl, clickPoints,
                 orphans, encoderRan, acceptedClicks, pointImages>>

\* await sam2Service.encodeImage(imageData) has settled; real: the service
\* is loaded and holds an encoder session, so encodeImage went to the encoder
\* with the call's image (otherwise it returned at once, or threw because
\* the service is not initialized).  On success the call goes on to
\* sam2Service.segment(points).
EncodeResolved(ok, real) ==
  /\ segRun.pc = "encode"
  /\ IF ok
     THEN /\ segRun' = [segRun EXCEPT !.pc = "segment"]
          /\ uievent' = SegmentCall(segRun.points, real)
          /\ UNCHANGED isProcessing
     ELSE /\ SegmentationFinally
          /\ uievent' = [UiOther("failed") EXCEPT !.real = real]
  /\ encoderRan' = IF real THEN segRun.image ELSE encoderRan
  /\ UNCHANGED <<mounted, isInitialized, isInitializing, imageDataUrl, clickPoints,
                 orphans, acceptedClicks, pointImages>>

\* await sam2Service.segment(points) has settled
SegmentResolved(ok) ==
  /\ segRun.pc = "segment"
  /\ SegmentationFinally
  /\ uievent' = UiOther(IF ok THEN "result" ELSE "failed")
  /\ UNCHANGED <<mounted, isInitialized, isInitializing, imageDataUrl, clickPoints,
                 orphans, encoderRan, acceptedClicks, pointImages>>

\* clearSegmentation; its button is disabled while
\* !isInitialized || clickPoints.length === 0
ClearSegmentation ==
  /\ mounted
  /\ isInitialized
  /\ Len(clickPoints) > 0
  /\ clickPoints' = <<>>
  /\ acceptedClicks' = <<>>
  /\ pointImages' = <<>>
  /\ uievent' = UiOther("cleared")
  /\ UNCHANGED <<mounted, isInitialized, isInitializing, imageDataUrl, isProcessing,
                 segRun, orphans, encoderRan>>

\* the camera component has captured a frame: setLastCapturedImage gives the
\* component a new imageDataUrl; the image effect redraws the canvas
NewImage ==
  /\ mounted
  /\ imageDataUrl < MaxImages
  /\ imageDataUrl' = imageDataUrl + 1
  /\ uievent' = UiOther("image")
  /\ UNCHANGED <<mounted, isInitialized, isInitializing, clickPoints, isProcessing,
                 segRun, orphans, encoderRan, acceptedClicks, pointImages>>

\* the state of a component instance when it is rendered first
FreshInstance ==
  /\ isInitialized' = FALSE
  /\ clickPoints' = <<>>
  /\ isProcessing' = FALSE
  /\ segRun' = IdleRun
  /\ acceptedClicks' = <<>>
  /\ pointImages' = <<>>

\* the SAM2 button or the Enable switch turns sam2Enabled off: the component
\* is unmounted; a performSegmentation call of it that is suspended goes on
\* without it
DisableSegmentation ==
  /\ mounted
  /\ mounted' = FALSE
  /\ IF segRun.pc = "idle"
     THEN UNCHANGED orphans
     ELSE /\ Len(orphans) < MaxOrphans
          /\ orphans' = Append(orphans, [pc |-> segRun.pc])
  /\ FreshInstance
  /\ isInitializing' = FALSE
  /\ uievent' = UiOther("unmounted")
  /\ UNCHANGED <<imageDataUrl, encoderRan>>

\* the SAM2 button turns sam2Enabled on: a new instance is mounted and its
\* auto-init effect starts initializeSAM2Model
EnableSegmentation ==
  /\ ~mounted
  /\ mounted' = TRUE
  /\ FreshInstance
  /\ isInitializing' = AutoInitStarts(TRUE, FALSE, FALSE)
  /\ uievent' = UiOther("mounted")
  /\ UNCHANGED <<imageDataUrl, orphans, encoderRan>>

RemoveAt(seq, i) == SubSeq(seq, 1, i - 1) \o SubSeq(seq, i + 1, Len(seq))

\* a performSegmentation call of an unmounted instance resumes after one of
\* its awaits (conversion, encodeImage, segment)
OrphanResolved(i, ok) ==
  /\ i \in 1..Len(orphans)
  /\ orphans' = IF ok /\ orphans[i].pc = "convert"
                THEN [orphans EXCEPT ![i].pc = "encode"]
                ELSE IF ok /\ orphans[i].pc = "encode"
                THEN [orphans EXCEPT ![i].pc = "segment"]
                ELSE RemoveAt(orphans, i)
  /\ uievent' = UiOther("orphan")
  /\ UNCHANGED <<mounted, isInitialized, isInitializing, imageDataUrl, clickPoints,
                 isProcessing, segRun, encoderRan, acceptedClicks, pointImages>>

\* a component instance just mounted on the first captured frame, its
\* auto-init effect having started initializeSAM2Model
UiInit ==
  /\ mounted = TRUE
  /\ isInitialized = FALSE
  /\ isInitializing = TRUE
  /\ imageDataUrl = 1
  /\ clickPoints = <<>>
  /\ isProcessing = FALSE
  /\ segRun = IdleRun
  /\ orphans = <<>>
  /\ encoderRan = 0
  /\ uievent = UiOther("mounted")
  /\ acceptedClicks = <<>>
  /\ pointImages = <<>>

\* ================================================= segmentation results
\* A mask is [data, width, height]; data[y * width + x + 1] is pixel (x, y).
GridPixels == {<<x, y>> : x \in 0..(GridW - 1), y \in 0..(GridH - 1)}
PixelIndex(x, y, width) == y * width + x + 1

\* raw decoder outputs of one mask, by shape
RawKinds == {"empty", "full", "corner", "last"}

RawValue(kind, j) ==
  CASE kind = "empty" -> -1
    [] kind = "full" -> 1
    [] kind = "corner" -> IF j = 1 THEN 1 ELSE 0
    [] OTHER -> IF j = GridW * GridH THEN 1 ELSE -1

RECURSIVE RawData(_)
RawData(kinds) ==
  IF kinds = <<>> THEN <<>>
  ELSE [j \in 1..(GridW * GridH) |-> RawValue(Head(kinds), j)] \o RawData(Tail(kinds))

\* decoderResults.masks, dims [batch, numMasks, height, width]
MasksTensor(kinds) == [dims |-> <<1, Len(kinds), GridH, GridW>>, data |-> RawData(kinds)]

RECURSIVE KindSeqs(_)
KindSeqs(n) ==
  IF n = 0 THEN {<<>>}
  ELSE {Append(s, k) : s \in KindSeqs(n - 1), k \in RawKinds}

\* decoderResults.iou_predictions.data, in percent
IouScores == {30, 90}

\* the decoder's outputs: between one and MaxMasks masks and one predicted
\* score for each of them
DecoderOutputs ==
  UNION {{[masks |-> MasksTensor(kinds), iou |-> iou] :
            kinds \in KindSeqs(n), iou \in [1..n -> IouScores]} : n \in 1..MaxMasks}

BinarizeNonNegative(v) == IF v >= 0 THEN 255 ELSE 0

\* binaryMask[j] = maskValues[j] > 0.0 ? 255 : 0
Binarize(v) == IF v > 0 THEN 255 ELSE 0

\* processMasks
ProcessMasks(masksTensor) ==
  LET numMasks == masksTensor.dims[2]
      height == masksTensor.dims[3]
      width == masksTensor.dims[4]
      maskValues(i) == SubSeq(masksTensor.data, (i - 1) * height * width + 1,
                              i * height * width)
  IN [i \in 1..numMasks |->
        [data |-> [j \in 1..Len(maskValues(i)) |-> Binarize(maskValues(i)[j])],
         width |-> width, height |-> height]]

\* radius = maskSize / 2, in pixels of the grid
Radii == {1, 2}

\* 0.7 + Math.random() * 0.25, in percent
DemoScores == {70, 94}

DistanceSq(px, point) == (px[1] - point.x) * (px[1] - point.x)
                         + (px[2] - point.y) * (px[2] - point.y)

\* distance < radius, and distance / radius + noise < 1 for every noise
\* below 0.3
CorePixels(point, radius) ==
  {px \in GridPixels : DistanceSq(px, point) < radius * radius
                       /\ 100 * DistanceSq(px, point) <= 49 * radius * radius}

\* distance < radius, and distance / radius + noise < 1 for some noise
\* below 0.3 only
RingPixels(point, radius) ==
  {px \in GridPixels : DistanceSq(px, point) < radius * radius
                       /\ 100 * DistanceSq(px, point) > 49 * radius * radius}

DemoMask(fg) ==
  [data |-> [j \in 1..(GridW * GridH) |->
               IF \E px \in fg : PixelIndex(px[1], px[2], GridW) = j THEN 255 ELSE 0],
   width |-> GridW, height |-> GridH]

\* the masks createDemoSegmentation can build around one point
DemoMaskChoices(point) ==
  UNION {{DemoMask(CorePixels(point, r) \cup ring) : ring \in SUBSET RingPixels(point, r)} :
           r \in Radii}

IsPositiveAny(point) == TRUE

\* if (point.label === 1)
IsPositive(point) == point.label = 1

\* createDemoSegmentation: the results it can return for the points
RECURSIVE CreateDemoSegmentation(_)
CreateDemoSegmentation(points) ==
  IF points = <<>> THEN {[masks |-> <<>>, scores |-> <<>>]}
  ELSE LET before == CreateDemoSegmentation(SubSeq(points, 1, Len(points) - 1))
           point == points[Len(points)]
       IN IF IsPositive(point)
          THEN {[masks |-> Append(r.masks, m), scores |-> Append(r.scores, s)] :
                  r \in before, m \in DemoMaskChoices(point), s \in DemoScores}
          ELSE before

RECURSIVE PointSeqs(_)
PointSeqs(n) ==
  IF n = 0 THEN {<<>>}
  ELSE {Append(s, p) : s \in PointSeqs(n - 1), p \in PromptPoints}

\* findMaskBounds; NoBounds is its null
NoBounds == [none |-> TRUE]

Foreground(mask) ==
  {<<x, y>> \in (0..(mask.width - 1)) \X (0..(mask.height - 1)) :
     mask.data[PixelIndex(x, y, mask.width)] > 0}

MinOf(S) == CHOOSE v \in S : \A w \in S : v <= w
MaxOf(S) == CHOOSE v \in S : \A w \in S : v >= w

\* let minX = mask.width, minY = mask.height, maxX = 0, maxY = 0, hasPixels = false
ScanStart(mask) ==
  [minX |-> mask.width, minY |-> mask.height, maxX |-> 0, maxY |-> 0,
   hasPixels |-> FALSE]

\* the body of the two loops for pixel (x, y)
ScanPixel(mask, acc, x, y) ==
  IF mask.data[PixelIndex(x, y, mask.width)] > 0
  THEN [minX |-> MinOf({acc.minX, x}), minY |-> MinOf({acc.minY, y}),
        maxX |-> MaxOf({acc.maxX, x}), maxY |-> MaxOf({acc.maxY, y}),
        hasPixels |-> TRUE]
  ELSE acc

\* the loops over y and x, from pixel number n (row by row) to the last
RECURSIVE ScanMask(_, _, _)
ScanMask(mask, acc, n) ==
  IF n >= mask.width * mask.height THEN acc
  ELSE ScanMask(mask, ScanPixel(mask, acc, n % mask.width, n \div mask.width), n + 1)

\* variant: width and height as differences of the extreme coordinates
FindMaskBoundsNoPlusOne(mask) ==
  LET acc == ScanMask(mask, ScanStart(mask), 0)
  IN IF ~acc.hasPixels THEN NoBounds
     ELSE [x |-> acc.minX, y |-> acc.minY,
           width |-> acc.maxX - acc.minX, height |-> acc.maxY - acc.minY]

FindMaskBounds(mask) ==
  LET acc == ScanMask(mask, ScanStart(mask), 0)
  IN IF ~acc.hasPixels THEN NoBounds
     ELSE [x |-> acc.minX, y |-> acc.minY,
           width |-> acc.maxX - acc.minX + 1, height |-> acc.maxY - acc.minY + 1]

\* the image the masks were computed on: pixel j holds the value j
ImagePixel(x, y) == PixelIndex(x, y, GridW)

Cleared == 0   \* a pixel removed by ctx.clearRect

\* the canvas generateCroppedImages draws for one mask with bounds: the image
\* section inside the bounds, with the pixels outside the mask cleared.  The
\* data URL pushed is the encoding of this canvas.
CropCanvas(mask, bounds) ==
  [width |-> bounds.width, height |-> bounds.height,
   pixels |-> [k \in 1..(bounds.width * bounds.height) |->
                 LET x == (k - 1) % bounds.width
                     y == (k - 1) \div bounds.width
                     maskIndex == (bounds.y + y) * mask.width + (bounds.x + x) + 1
                 IN IF mask.data[maskIndex] = 0 THEN Cleared
                    ELSE ImagePixel(bounds.x + x, bounds.y + y)]]

\* generateCroppedImages: masks.forEach, `if (!bounds) return`, push
RECURSIVE GenerateCroppedImages(_)
GenerateCroppedImages(masks) ==
  IF masks = <<>> THEN <<>>
  ELSE LET before == GenerateCroppedImages(SubSeq(masks, 1, Len(masks) - 1))
           mask == masks[Len(masks)]
           bounds == FindMaskBounds(mask)
       IN IF bounds = NoBounds THEN before
          ELSE Append(before, CropCanvas(mask, bounds))

\* result.scores.indexOf(Math.max(...result.scores))
BestSegmentIndex(scores) ==
  IF scores = <<>> THEN NotFound
  ELSE MinOf({i \in 1..Len(scores) : \A k \in 1..Len(scores) : scores[k] <= scores[i]})

NoCrop == [none |-> TRUE]   \* croppedImages[i] === undefined

VARIABLES
  segInput,    \* what the segment call at hand works on
  sresult,     \* the SAM2Result the call returned, with what it was made from
  published    \* what the parent component received for it

segVars == <<segInput, sresult, published>>

NoOutput == [masks |-> MasksTensor(<<>>), iou |-> <<>>]
NoInput == [mode |-> "none", out |-> NoOutput, points |-> <<>>]
NoResult == [none |-> TRUE]
NotPublished == [none |-> TRUE]

\* a segment call is made with real models, which run the decoder, or in demo
\* mode on the prompt points
SegmentInputs ==
  {[mode |-> "real", out |-> o, points |-> <<>>] : o \in DecoderOutputs}
  \cup {[mode |-> "demo", out |-> NoOutput, points |-> pts] :
          pts \in UNION {PointSeqs(n) : n \in 0..MaxPrompts}}

\* segment with real models: the decoder has run
SegmentReal ==
  /\ segInput.mode = "real"
  /\ sresult = NoResult
  /\ sresult' = [mode |-> "real", points |-> <<>>, raw |-> segInput.out.masks,
                 masks |-> ProcessMasks(segInput.out.masks),
                 scores |-> segInput.out.iou]
  /\ UNCHANGED <<segInput, published>>

\* segment in demo mode: one of the results createDemoSegmentation can return
SegmentDemo ==
  /\ segInput.mode = "demo"
  /\ sresult = NoResult
  /\ \E res \in CreateDemoSegmentation(segInput.points) :
       sresult' = [mode |-> "demo", points |-> segInput.points, raw |-> MasksTensor(<<>>),
                   masks |-> res.masks, scores |-> res.scores]
  /\ UNCHANGED <<segInput, published>>

\* performSegmentation after segment has returned: generateCroppedImages and
\* onSegmentationResult, which is handleSegmentationResult of the camera
\* component
PublishResult(useSegmentationForDetection) ==
  /\ sresult # NoResult
  /\ published = NotPublished
  /\ LET croppedImages == GenerateCroppedImages(sresult.masks)
         picks == useSegmentationForDetection /\ Len(croppedImages) > 0
         bestSegmentIndex == BestSegmentIndex(sresult.scores)
     IN published' =
          [croppedImages |-> croppedImages,
           bounds |-> [i \in 1..Len(sresult.masks) |-> FindMaskBounds(sresult.masks[i])],
           picked |-> picks,
           bestSegmentIndex |-> IF picks THEN bestSegmentIndex ELSE NotFound,
           bestSegmentImage |->
             IF picks /\ bestSegmentIndex \in 1..Len(croppedImages)
             THEN croppedImages[bestSegmentIndex] ELSE NoCrop]
  /\ UNCHANGED <<segInput, sresult>>

SegInit ==
  /\ segInput = NoInput
  /\ sresult = NoResult
  /\ published = NotPublished

\* ========================================================= specifications
vars == <<camVars, engVars, detVars, mcall, uiVars, segVars>>

Init == CamInit /\ EngInit /\ DetInit /\ MotInit /\ UiInit /\ SegInit

\* the capture loop of the camera component
Next ==
  \/ \E i \in 1..MaxInv, img \in Frames \cup {NoImage} : Tick(i, img) /\ UNCHANGED <<engVars, detVars, mcall, uiVars, segVars>>
  \/ \E i \in 1..MaxInv, img \in Frames \cup {NoImage} : TestCapture(i, img) /\ UNCHANGED <<engVars, detVars, mcall, uiVars, segVars>>
  \/ \E i \in 1..MaxInv, failed \in BOOLEAN : MotionResolved(i, failed) /\ UNCHANGED <<engVars, detVars, mcall, uiVars, segVars>>
  \/ \E i \in 1..MaxInv, o \in FetchOutcomes : FetchResolved(i, o) /\ UNCHANGED <<engVars, detVars, mcall, uiVars, segVars>>
  \/ \E t \in CameraTargets : SetWatchTarget(t) /\ UNCHANGED <<engVars, detVars, mcall, uiVars, segVars>>
  \/ ToggleMonitoring /\ UNCHANGED <<engVars, detVars, mcall, uiVars, segVars>>
  \/ ToggleMotionDetection /\ UNCHANGED <<engVars, detVars, mcall, uiVars, segVars>>

Spec == Init /\ [][Next]_vars

\* the monitoring lifecycle of the camera component: start, stop, target set
\* and cleared, with timer-driven captures of an unchanging scene
NextMonitor ==
  \/ \E i \in 1..MaxInv, img \in StillFrames \cup {NoImage} :
        Tick(i, img) /\ UNCHANGED <<engVars, detVars, mcall, uiVars, segVars>>
  \/ \E i \in 1..MaxInv, failed \in BOOLEAN : MotionResolved(i, failed) /\ UNCHANGED <<engVars, detVars, mcall, uiVars, segVars>>
  \/ \E i \in 1..MaxInv, o \in FetchOutcomes : FetchResolved(i, o) /\ UNCHANGED <<engVars, detVars, mcall, uiVars, segVars>>
  \/ \E t \in CameraTargets : SetWatchTarget(t) /\ UNCHANGED <<engVars, detVars, mcall, uiVars, segVars>>
  \/ ClearWatchTarget /\ UNCHANGED <<engVars, detVars, mcall, uiVars, segVars>>
  \/ ToggleMonitoring /\ UNCHANGED <<engVars, detVars, mcall, uiVars, segVars>>
  \/ ToggleMotionDetection /\ UNCHANGED <<engVars, detVars, mcall, uiVars, segVars>>

SpecMonitor == Init /\ [][NextMonitor]_vars

\* the segmentation service under arbitrary interleavings of its calls
NextEngine ==
  \/ \E j \in 1..MaxOps, config \in BOOLEAN :
        InitializeSAM2(j, config) /\ UNCHANGED <<camVars, detVars, mcall, uiVars, segVars>>
  \/ \E j \in 1..MaxOps, artifacts \in ArtifactStates, gpu \in BOOLEAN :
        InitChecked(j, artifacts, gpu) /\ UNCHANGED <<camVars, detVars, mcall, uiVars, segVars>>
  \/ \E j \in 1..MaxOps : InitAdapter(j) /\ UNCHANGED <<camVars, detVars, mcall, uiVars, segVars>>
  \/ \E j \in 1..MaxOps, loaded \in BOOLEAN : InitLoaded(j, loaded) /\ UNCHANGED <<camVars, detVars, mcall, uiVars, segVars>>
  \/ \E j \in 1..MaxOps : EncodeImage(j) /\ UNCHANGED <<camVars, detVars, mcall, uiVars, segVars>>
  \/ \E j \in 1..MaxOps, ok \in BOOLEAN : EncodeDone(j, ok) /\ UNCHANGED <<camVars, detVars, mcall, uiVars, segVars>>
  \/ \E j \in 1..MaxOps, canvas \in BOOLEAN : Segment(j, canvas) /\ UNCHANGED <<camVars, detVars, mcall, uiVars, segVars>>
  \/ \E j \in 1..MaxOps, ok \in BOOLEAN : SegmentDone(j, ok) /\ UNCHANGED <<camVars, detVars, mcall, uiVars, segVars>>
  \/ \E j \in 1..MaxOps : Dispose(j) /\ UNCHANGED <<camVars, detVars, mcall, uiVars, segVars>>
  \/ \E j \in 1..MaxOps : DisposeEncoderReleased(j) /\ UNCHANGED <<camVars, detVars, mcall, uiVars, segVars>>
  \/ \E j \in 1..MaxOps : DisposeDecoderReleased(j) /\ UNCHANGED <<camVars, detVars, mcall, uiVars, segVars>>

SpecEngine == Init /\ [][NextEngine]_vars

\* the detection route, one request after another
NextDetect ==
  \/ \E req \in DetectRequests \cup {BadBody}, key \in ApiKeys :
        Post(req, key) /\ UNCHANGED <<camVars, engVars, mcall, uiVars, segVars>>
  \/ \E outcome \in UpstreamOutcomes :
        UpstreamResolved(outcome) /\ UNCHANGED <<camVars, engVars, mcall, uiVars, segVars>>

SpecDetect == Init /\ [][NextDetect]_vars

\* detectMotion, one invocation after another; an image that has loaded
\* resumes the invocation
MotionResumes ==
  \E throws \in BOOLEAN : ImagesLoaded(throws) /\ UNCHANGED <<camVars, engVars, detVars, uiVars, segVars>>

NextMotion ==
  \/ \E prev \in MotionFrames \cup {NoImage}, cur \in MotionFrames,
         enabled \in BOOLEAN, ctx \in BOOLEAN :
        DetectMotionCall(prev, cur, enabled, ctx) /\ UNCHANGED <<camVars, engVars, detVars, uiVars, segVars>>
  \/ MotionResumes

SpecMotion == Init /\ [][NextMotion]_vars /\ WF_vars(MotionResumes)

\* the segmentation component: clicks, clears and the segmentation pipeline
NextClicks ==
  \/ \E ready \in BOOLEAN :
        InitializeSAM2Model(ready) /\ UNCHANGED <<camVars, engVars, detVars, mcall, segVars>>
  \/ \E pos \in ClickPositions, button \in Buttons, serviceReady \in BOOLEAN :
        CanvasClick(pos, button, serviceReady) /\ UNCHANGED <<camVars, engVars, detVars, mcall, segVars>>
  \/ \E ok \in BOOLEAN : ConvertResolved(ok) /\ UNCHANGED <<camVars, engVars, detVars, mcall, segVars>>
  \/ \E ok \in BOOLEAN, real \in BOOLEAN :
        EncodeResolved(ok, real) /\ UNCHANGED <<camVars, engVars, detVars, mcall, segVars>>
  \/ \E ok \in BOOLEAN : SegmentResolved(ok) /\ UNCHANGED <<camVars, engVars, detVars, mcall, segVars>>
  \/ ClearSegmentation /\ UNCHANGED <<camVars, engVars, detVars, mcall, segVars>>

SpecClicks == Init /\ [][NextClicks]_vars

\* a session of the segmentation component: left clicks at one place, new
\* frames from the camera component, segmentation switched off and on
NextSession ==
  \/ \E ready \in BOOLEAN :
        InitializeSAM2Model(ready) /\ UNCHANGED <<camVars, engVars, detVars, mcall, segVars>>
  \/ \E serviceReady \in BOOLEAN :
        CanvasClick(<<0, 0>>, 0, serviceReady) /\ UNCHANGED <<camVars, engVars, detVars, mcall, segVars>>
  \/ \E ok \in BOOLEAN : ConvertResolved(ok) /\ UNCHANGED <<camVars, engVars, detVars, mcall, segVars>>
  \/ \E ok \in BOOLEAN, real \in BOOLEAN :
        EncodeResolved(ok, real) /\ UNCHANGED <<camVars, engVars, detVars, mcall, segVars>>
  \/ \E ok \in BOOLEAN : SegmentResolved(ok) /\ UNCHANGED <<camVars, engVars, detVars, mcall, segVars>>
  \/ ClearSegmentation /\ UNCHANGED <<camVars, engVars, detVars, mcall, segVars>>
  \/ NewImage /\ UNCHANGED <<camVars, engVars, detVars, mcall, segVars>>
  \/ DisableSegmentation /\ UNCHANGED <<camVars, engVars, detVars, mcall, segVars>>
  \/ EnableSegmentation /\ UNCHANGED <<camVars, engVars, detVars, mcall, segVars>>
  \/ \E i \in 1..MaxOrphans, ok \in BOOLEAN :
        OrphanResolved(i, ok) /\ UNCHANGED <<camVars, engVars, detVars, mcall, segVars>>

SpecSession == Init /\ [][NextSession]_vars

\* one segment call and what is made of its result, for every decoder output
\* and every list of prompt points
ResultsInit ==
  /\ CamInit /\ EngInit /\ DetInit /\ MotInit /\ UiInit
  /\ segInput \in SegmentInputs
  /\ sresult = NoResult
  /\ published = NotPublished

NextResults ==
  \/ SegmentReal /\ UNCHANGED <<camVars, engVars, detVars, mcall, uiVars>>
  \/ SegmentDemo /\ UNCHANGED <<camVars, engVars, detVars, mcall, uiVars>>
  \/ \E use \in BOOLEAN :
        PublishResult(use) /\ UNCHANGED <<camVars, engVars, detVars, mcall, uiVars>>

SpecResults == ResultsInit /\ [][NextResults]_vars

\* ================================================================ claims
\* number of detection requests in flight
InFlight == Cardinality({i \in 1..MaxInv : calls[i].pc = "fetch"})

Decisions == {"skipMotion", "waitFrames", "dispatched"}

\* changePercent <= motionThreshold * 100, for the motion data of an event
AtMostThreshold(motion) == motion.num <= MotionThresholdPct * motion.den

\* C1: two detection cycles never overlap: at most one request to the vision
\* endpoint is in flight at any time.
C1_NoOverlap == InFlight <= 1

\* C3 as stated: with a complex-action target, the first capture makes no
\* detection call and the second capture makes one.
C3_SecondCaptureAlwaysDispatches ==
  (event.type \in Decisions /\ event.complex) =>
     /\ event.k = 1 => event.type = "waitFrames"
     /\ event.k = 2 => event.type = "dispatched"

\* C3 amended: with a complex-action target, the first capture makes no
\* detection call (it waits for more frames); the second capture makes one,
\* with the two buffered frames, unless the motion gate skips it (gating
\* enabled and changePercent <= motionThreshold * 100).
C3_ComplexActionGating ==
  (event.type \in Decisions /\ event.complex) =>
     /\ event.k = 1 => event.type = "waitFrames"
     /\ event.k = 2 =>
          \/ event.type = "dispatched" /\ Len(event.frames) = 2
          \/ event.type = "skipMotion" /\ event.gated /\ AtMostThreshold(event.motion)

C3_Witness ==
  /\ event.type = "dispatched" /\ event.complex /\ event.k = 2
  /\ Len(event.frames) = 2 /\ event.frames[2] = event.img
  /\ processingFrame

\* C4: with motion gating enabled and a previous frame, a tick whose
\* changePercent <= motionThreshold * 100 makes no detection call and still
\* sets lastFrame to the current frame.
C4_MotionGateSkips ==
  /\ (event.type \in Decisions /\ event.gated /\ AtMostThreshold(event.motion))
        => event.type = "skipMotion"
  /\ event.type = "skipMotion" =>
        /\ event.gated /\ AtMostThreshold(event.motion)
        /\ lastFrame = event.img
        /\ \A i \in 1..MaxInv : calls[i].pc = "fetch" => calls[i].k # event.k

C4_Witness ==
  /\ event.type = "skipMotion" /\ event.gated
  /\ event.motion.num = 0 /\ ~event.motion.hasMotion
  /\ lastFrame = event.img

\* C5: the frame buffer never holds more than 3 frames, and every capture
\* appends its frame at the end, evicting the oldest one when the buffer is
\* full; nothing else changes the buffer.
RingAppend(buffer, img) ==
  IF Len(buffer) < FrameBufferCap THEN Append(buffer, img) ELSE Append(Tail(buffer), img)

C5_FrameBufferRing ==
  /\ [](Len(frameBuffer) <= FrameBufferCap)
  /\ [](captures > 0 => frameBuffer[Len(frameBuffer)] = lastCapturedImage)
  /\ [][IF captures' # captures
        THEN frameBuffer' = RingAppend(frameBuffer, lastCapturedImage')
        ELSE frameBuffer' = frameBuffer]_vars

C5_Witness ==
  /\ captures = FrameBufferCap + 1
  /\ frameBuffer = <<"dark", "moved", "dark">>

\* ------------------------------------------------------ monitoring lifecycle
AtFetch(n) == \E i \in 1..MaxInv : calls[i].pc = "fetch" /\ calls[i].k = n

\* C16: a detection call started by a timer tick that resolves after
\* monitoring was stopped does not invoke onDetection: its result is dropped.
\* (Every call of the monitoring lifecycle is started while monitoring is on,
\* so a call that resolves with monitoring off was in flight at the stop.)
C16_StoppedResultDropped ==
  [][\A n \in 1..MaxCaptures :
       (AtFetch(n) /\ ~isMonitoring /\ ~AtFetch(n)')
         => ~(event'.type = "onDetection" /\ event'.k = n)]_vars

\* C17: an interval timer is active only while monitoring is on and a watch
\* target is set, at most one timer is active at any time, and every
\* timer-driven capture happens while a timer is active.
C17_TimerFollowsMonitoring ==
  /\ [](Cardinality(timers) <= 1)
  /\ [](timers # {} <=> (isMonitoring /\ watchTarget # NoTarget))
  /\ [](timers = {} => intervalRef = NoTimer)
  /\ [][captures' # captures => (timers # {} /\ isMonitoring /\ watchTarget # NoTarget)]_vars

\* monitoring stopped after timer-driven captures, one of them still in flight
C17_Witness ==
  /\ ~isMonitoring /\ watchTarget # NoTarget /\ timers = {}
  /\ captures >= 2 /\ \E n \in 1..MaxCaptures : AtFetch(n)

\* C18: every detectMotion invocation returns, so that the tick goes on: one
\* that waits for its images is eventually done.
C18_MotionEstimationReturns == (mcall.pc = "loading") ~> (mcall.pc = "done")

C2_DetectedMeetsThreshold ==
  (rpc = "done" /\ response.status = 200 /\ response.detected)
     => response.confidence >= request.target.confidence

\* the upstream result said detected below the threshold: the response does not
C2_Witness ==
  /\ rpc = "done" /\ response.status = 200
  /\ response.originalDetected /\ ~response.detected
  /\ response.confidence < request.target.confidence

\* ---------------------------------------------------------------- service
\* the result of the step that enters a service call
CallResults == {"returned", "notInitialized", "noop", "demo", "noCanvas", "started"}

opsVars == <<svcState, released, loads, ops, encodes>>

Called(op) == sevent'.op = op /\ sevent'.result \in CallResults

ReadyDemo ==
  isModelLoaded /\ encoderSession = NoSession /\ decoderSession = NoSession

InitsInProgress == {j \in 1..MaxOps : ops[j].op = "initialize"}

\* C6: an initialize() that finds the model artifacts absent leaves the
\* service ready in demo mode (isReady() true, no encoder or decoder handle),
\* and encodeImage on a service in demo mode returns without throwing and
\* without touching the cached tensors.
C6_AbsentModelsGiveDemoMode ==
  /\ [](sevent = SvcEvent("initialize", "readyDemo") => IsReady /\ ReadyDemo /\ ~isLoading)
  /\ [][(ReadyDemo /\ Called("encodeImage"))
          => sevent'.result = "noop" /\ UNCHANGED opsVars]_vars

C6_Witness ==
  /\ sevent = SvcEvent("encodeImage", "noop")
  /\ IsReady /\ ReadyDemo /\ imageEmbeddings = NoTensor

\* C7: when the model load fails, initialize() throws and the service is
\* uninitialized again (not loading, not loaded), and an initialize() call on
\* an uninitialized service passes the guard and starts loading.
C7_FailedLoadResetsLoading ==
  /\ [](sevent = SvcEvent("initialize", "failed") => ~isLoading /\ ~isModelLoaded)
  /\ [][(~isModelLoaded /\ ~isLoading /\ Called("initialize"))
          => sevent'.result = "started" /\ isLoading']_vars

C7_Witness ==
  /\ sevent = SvcEvent("initialize", "failed")
  /\ ~isLoading /\ ~isModelLoaded /\ InitsInProgress = {}

\* C8: initialize() on a service that is loading or ready returns at once and
\* changes nothing, and at most one initialization is in progress.
C8_InitializeGuard ==
  /\ [](Cardinality(InitsInProgress) <= 1)
  /\ [][((isLoading \/ isModelLoaded) /\ Called("initialize"))
          => sevent'.result = "returned" /\ UNCHANGED opsVars]_vars

C8_Witness ==
  /\ sevent = SvcEvent("initialize", "returned")
  /\ isLoading /\ ~isModelLoaded /\ Cardinality(InitsInProgress) = 1

\* C9: encodeImage and segment on a service that is not loaded (uninitialized
\* or loading) throw the not-initialized error and change nothing.
C9_NotInitializedError ==
  [][(~isModelLoaded /\ (Called("encodeImage") \/ Called("segment")))
       => sevent'.result = "notInitialized" /\ UNCHANGED opsVars]_vars

C9_Witness ==
  /\ sevent = SvcEvent("segment", "notInitialized")
  /\ isLoading /\ ~isModelLoaded

\* C10: the three cached tensors are all unset or all from the same encoder
\* run, and the decoder is always run on three tensors of one encoder run.
C10_TensorsFromOneRun ==
  /\ imageEmbeddings = highResFeats0
  /\ highResFeats0 = highResFeats1
  /\ \A j \in 1..MaxOps : ops[j].op = "segment" =>
        /\ ops[j].image_embed # NoTensor
        /\ ops[j].image_embed = ops[j].high_res_feats_0
        /\ ops[j].high_res_feats_0 = ops[j].high_res_feats_1

\* a decode still running on the tensors of run 1 after run 2 replaced the cache
C10_Witness ==
  /\ imageEmbeddings = 2 /\ highResFeats0 = 2 /\ highResFeats1 = 2
  /\ \E j \in 1..MaxOps : ops[j].op = "segment" /\ ops[j].image_embed = 1

AllIdle == \A j \in 1..MaxOps : ops[j].op = "idle"

Uninitialized ==
  /\ ~isModelLoaded /\ ~isLoading
  /\ encoderSession = NoSession /\ decoderSession = NoSession
  /\ imageEmbeddings = NoTensor /\ highResFeats0 = NoTensor /\ highResFeats1 = NoTensor

\* C11: when dispose() completes and no other call is in flight, the service
\* holds no session, every session that was loaded has been released, the
\* cached tensors are cleared and isReady() is false; dispose() on a service
\* that holds no session (disposed, never initialized or in demo mode) with no
\* call in flight completes without an error and without a release, in the
\* same uninitialized state.
C11_DisposeResetsAndIsIdempotent ==
  /\ []((sevent = SvcEvent("dispose", "done") /\ AllIdle)
         => /\ Uninitialized /\ ~IsReady
            /\ released.encoder = 1..loads /\ released.decoder = 1..loads)
  /\ [][(AllIdle /\ encoderSession = NoSession /\ decoderSession = NoSession
          /\ sevent'.op = "dispose")
           => /\ sevent'.result = "done"
              /\ Uninitialized'
              /\ UNCHANGED <<released, ops>>]_vars

\* the dispose of a loaded service that had encoded, nothing else in flight
C11_Witness ==
  /\ sevent = SvcEvent("dispose", "done") /\ AllIdle /\ Uninitialized
  /\ loads = 1 /\ encodes >= 1 /\ released.encoder = {1} /\ released.decoder = {1}

\* loadStatus
LoadStatus ==
  IF isLoading THEN "LOADING"
  ELSE IF ~isModelLoaded THEN "UNINITIALIZED"
  ELSE IF encoderSession # NoSession \/ decoderSession # NoSession THEN "READY_REAL"
  ELSE "READY_DEMO"

\* C20 as stated: loadStatus returns to UNINITIALIZED through dispose() only.
C20_UninitializedOnlyByDispose ==
  [][(LoadStatus # "UNINITIALIZED" /\ LoadStatus' = "UNINITIALIZED")
       => sevent'.op = "dispose"]_vars

\* C20: loadStatus changes from UNINITIALIZED to LOADING only; from LOADING to
\* READY_REAL, to READY_DEMO or, when the load fails, back to UNINITIALIZED;
\* from READY_REAL or READY_DEMO to UNINITIALIZED only, and only by dispose().
C20_LoadStatusTransitions ==
  [][LoadStatus' # LoadStatus =>
       \/ /\ LoadStatus = "UNINITIALIZED" /\ LoadStatus' = "LOADING"
          /\ sevent' = SvcEvent("initialize", "started")
       \/ /\ LoadStatus = "LOADING" /\ LoadStatus' = "READY_REAL"
          /\ sevent' = SvcEvent("initialize", "readyReal")
       \/ /\ LoadStatus = "LOADING" /\ LoadStatus' = "READY_DEMO"
          /\ sevent' = SvcEvent("initialize", "readyDemo")
       \/ /\ LoadStatus = "LOADING" /\ LoadStatus' = "UNINITIALIZED"
          /\ sevent' = SvcEvent("initialize", "failed")
       \/ /\ LoadStatus \in {"READY_REAL", "READY_DEMO"} /\ LoadStatus' = "UNINITIALIZED"
          /\ sevent' = SvcEvent("dispose", "done")]_vars

\* a failed load after a load and a dispose
C20_Witness ==
  /\ sevent = SvcEvent("initialize", "failed")
  /\ LoadStatus = "UNINITIALIZED" /\ loads = 1
  /\ released.encoder = {1}

\* C12: every segment call receives the full list of the clicks accepted
\* since the last clear, in click order with the new point last, and the
\* decoder's coordinate and label tensors hold the points in that order.
C12_SegmentGetsAllClicksInOrder ==
  /\ clickPoints = acceptedClicks
  /\ uievent.type = "segment" =>
       /\ uievent.points = segRun.accepted
       /\ Len(uievent.points) > 0
       /\ uievent.real =>
            /\ Len(uievent.coords) = 2 * Len(segRun.accepted)
            /\ Len(uievent.labels) = Len(segRun.accepted)
            /\ \A idx \in 1..Len(segRun.accepted) :
                 /\ uievent.coords[2 * idx - 1] = segRun.accepted[idx].x
                 /\ uievent.coords[2 * idx] = segRun.accepted[idx].y
                 /\ uievent.labels[idx] = segRun.accepted[idx].label

\* a decoder call with at least two points, the first two at different places
C12_Witness ==
  /\ uievent.type = "segment"
  /\ uievent.real
  /\ Len(uievent.points) >= 2
  /\ uievent.points[1].x # uievent.points[2].x
  /\ uievent.points[1].label # uievent.points[2].label

\* the crop generateCroppedImages draws for a mask that has foreground
CropOf(mask) == CropCanvas(mask, FindMaskBounds(mask))

\* C13: croppedImages has one entry per mask, entry i being the crop of mask
\* i, also when some mask has no foreground pixels; the crop taken at the
\* best-score index is the crop of the best-score mask.
C13_CropsAlignedWithMasks ==
  published # NotPublished =>
    /\ Len(published.croppedImages) = Len(sresult.masks)
    /\ \A i \in 1..Len(sresult.masks) :
         FindMaskBounds(sresult.masks[i]) # NoBounds =>
           /\ i <= Len(published.croppedImages)
           /\ published.croppedImages[i] = CropOf(sresult.masks[i])
    /\ published.picked
         /\ FindMaskBounds(sresult.masks[BestSegmentIndex(sresult.scores)]) # NoBounds =>
           published.bestSegmentImage
             = CropOf(sresult.masks[BestSegmentIndex(sresult.scores)])

\* C14: every mask of a result, real or demo, has width * height elements,
\* each 0 or 255 (for a real result 255 exactly where the raw decoder value is
\* above 0), and the result has as many scores as masks.
C14_MasksBinaryAndSized ==
  sresult # NoResult =>
    /\ Len(sresult.masks) = Len(sresult.scores)
    /\ \A i \in 1..Len(sresult.masks) :
         LET mask == sresult.masks[i]
         IN /\ Len(mask.data) = mask.width * mask.height
            /\ \A j \in 1..Len(mask.data) :
                 /\ mask.data[j] \in {0, 255}
                 /\ sresult.mode = "real" =>
                      (mask.data[j] = 255
                         <=> sresult.raw.data[(i - 1) * mask.width * mask.height + j] > 0)

\* a real result of two masks with raw values at the threshold and above it
C14_Witness ==
  /\ sresult # NoResult
  /\ sresult.mode = "real"
  /\ Len(sresult.masks) >= 2
  /\ \E j \in 1..Len(sresult.raw.data) : sresult.raw.data[j] = 0
  /\ \E j \in 1..Len(sresult.raw.data) : sresult.raw.data[j] > 0
  /\ \E j \in 1..Len(sresult.raw.data) : sresult.raw.data[j] < 0

\* positions in points of the positive prompts
PositiveIndexes(points) == {i \in 1..Len(points) : points[i].label = 1}

\* position in points of the k-th positive prompt
NthPositive(points, k) ==
  CHOOSE i \in PositiveIndexes(points) :
    Cardinality({h \in PositiveIndexes(points) : h <= i}) = k

\* C15: in demo mode segment(points) returns exactly one mask and one score
\* for each positive point, in point order (mask k lies around the k-th
\* positive point), and nothing for negative points; points that are all
\* negative, or no points, give no mask and no score.
C15_DemoOneMaskPerPositive ==
  (sresult # NoResult /\ sresult.mode = "demo") =>
    LET n == Cardinality(PositiveIndexes(sresult.points))
    IN /\ Len(sresult.masks) = n
       /\ Len(sresult.scores) = n
       /\ \A k \in 1..n :
            LET point == sresult.points[NthPositive(sresult.points, k)]
            IN /\ sresult.masks[k].data[PixelIndex(point.x, point.y, GridW)] = 255
               /\ \A px \in Foreground(sresult.masks[k]) :
                    DistanceSq(px, point) < MaxOf(Radii) * MaxOf(Radii)

\* a demo result for a negative point followed by a positive one
C15_Witness ==
  /\ sresult # NoResult
  /\ sresult.mode = "demo"
  /\ Len(sresult.points) = 2
  /\ sresult.points[1].label = 0
  /\ sresult.points[2].label = 1
  /\ Len(sresult.masks) = 1

\* ------------------------------------------------------- engine lifecycle
\* C21: when either model artifact, encoder or decoder, is unreachable,
\* initialize() attempts no model load: it never gets past the probe.
C21_UnreachableArtifactNoLoad ==
  \A j \in 1..MaxOps :
    (ops[j].op = "initialize" /\ ops[j].pc \in {"gpu", "load"})
      => (ops[j].artifacts.encoder /\ ops[j].artifacts.decoder)

\* C22: a segment call that runs the decoder runs it on the embedding of the
\* encodeImage call begun last, never on that of an earlier one.
C22_SegmentUsesLatestEncode ==
  [][\A j \in 1..MaxOps :
       (ops[j].op # "segment" /\ ops'[j].op = "segment")
         => ops'[j].image_embed = encodes]_vars

\* C23: whenever initialize() or initializeSAM2() resolves without error, the
\* service it acted on or returned is ready.
C23_ResolvedInitializeIsReady ==
  /\ (sevent.op = "initialize"
        /\ sevent.result \in {"returned", "readyDemo", "readyReal"}) => IsReady
  /\ sevent # SvcEvent("initializeSAM2", "newInstance")

\* C24: while the service is not ready it holds no session and no cached
\* tensor.
C24_NotReadyHoldsNothing ==
  ~IsReady =>
    /\ encoderSession = NoSession /\ decoderSession = NoSession
    /\ imageEmbeddings = NoTensor
    /\ highResFeats0 = NoTensor /\ highResFeats1 = NoTensor

C30_SkippedTickKeepsBuffer ==
  [][\A i \in 1..MaxInv :
       (calls[i].pc = "motion" /\ calls'[i].pc = "idle" /\ event'.type = "skipMotion")
         => calls[i].buffer = calls[i].before]_vars

\* ------------------------------------------------- segmentation sessions
\* C25: for successive clicks on the same displayed image the encoder runs
\* at most once: when an encoder run has finished for a click, the encoder
\* had not run on that image before.
C25_EncoderOncePerImage ==
  [][(segRun.pc = "encode" /\ uievent'.type = "segment" /\ uievent'.real)
       => encoderRan # segRun.image]_vars

\* C26: every point passed to segment was clicked on the image the call
\* encoded, the one displayed when the call was made.
C26_PointsOfCurrentImage ==
  uievent.type = "segment" =>
    \A i \in 1..Len(segRun.pointImages) : segRun.pointImages[i] = segRun.image

\* segmentation pipelines in flight, of the mounted instance and of earlier ones
PipelinesInFlight == (IF segRun.pc = "idle" THEN 0 ELSE 1) + Len(orphans)

\* C28: at most one segmentation pipeline is in flight at a time, so that
\* the encodeImage and segment calls of two clicks never interleave.
C28_OnePipelineAtATime == PipelinesInFlight <= 1

\* C29: after a failed initialization the component starts no new
\* initialization by itself.
C29_NoAutomaticRetry ==
  [][(isInitializing /\ uievent'.type \in {"initFailed", "initRetried"})
       => ~isInitializing']_vars

\* ------------------------------------------------ capture during detection
\* C31: while a detection call is in flight, a capture tick that has a frame
\* and a watch target still captures the frame (and goes on to the motion
\* check); only the dispatch of another detection call is held back.
C31_TickDuringDetectionCaptures ==
  [][(processingFrame /\ InFlight >= 1 /\ watchTarget # NoTarget
        /\ event'.type = "rejected" /\ event'.img # NoImage)
       => (captures' = captures + 1 /\ lastCapturedImage' = event'.img)]_vars

\* C32: every detection request has a frame list consistent with its
\* complex-action flag.  A non-complex request carries exactly the current
\* frame.  A complex-action request carries 2 or 3 frames whose last is the
\* current frame, and they are the frame buffer as this capture left it (the
\* latest captures, oldest first): the buffer after the capture when the
\* request is sent in the capture's own step, the buffer the capture kept
\* when it is sent after the motion check.
C32_RequestFramesConsistent ==
  /\ [](event.type = "dispatched" =>
          IF event.complex
          THEN /\ Len(event.frames) \in MinComplexFrames..FrameBufferCap
               /\ event.frames[Len(event.frames)] = event.img
          ELSE event.frames = <<event.img>>)
  /\ [][(event'.type = "dispatched" /\ event'.complex /\ event' # event) =>
          IF captures' # captures
          THEN event'.frames = frameBuffer'
          ELSE \E i \in 1..MaxInv :
                 /\ calls[i].pc = "motion" /\ calls[i].k = event'.k
                 /\ event'.frames = calls[i].buffer]_vars
  /\ [][\A i \in 1..MaxInv :
          (calls[i].pc # "motion" /\ calls'[i].pc = "motion")
            => calls'[i].buffer = frameBuffer']_vars

\* a complex-action request sent after the motion check with a full buffer
C32_Witness ==
  /\ event.type = "dispatched" /\ event.complex /\ event.gated
  /\ Len(event.frames) = FrameBufferCap
  /\ event.frames[FrameBufferCap] = event.img
  /\ event.frames[1] # event.img

\* C33: when monitoring stops, the capture state is reset: the frame buffer
\* is emptied and lastFrame is cleared.
C33_StopResetsCaptureState ==
  [][(isMonitoring /\ ~isMonitoring')
       => (frameBuffer' = <<>> /\ lastFrame' = NoImage)]_vars

\* -------------------------------------------------- detect route results
\* C34: for any non-empty upstream content the route returns a well-formed
\* result: an error response after the upstream call comes only from a call
\* that failed or from empty content, never from content that does not parse
\* or parses to something that is not an object.
C34_ContentNeverAnError ==
  [][(rpc = "openai" /\ rpc' = "done" /\ response'.status # 200)
       => response'.error \in {"upstream call failed", "No response from OpenAI"}]_vars

\* the recommended actions the route fills in itself
BackfilledActions ==
  {"check person", "alert security", "secure area", "call emergency services",
   "investigate"}

\* the upstream content parsed to an object that has no value for the field
UpstreamOmits(field) ==
  /\ field \in DOMAIN response.rawResponse.json
  /\ response.rawResponse.json[field] = Undefined

\* C35: a backfilled recommended action appears in a response only when the
\* response's final detected is true and its urgency is high.
C35_BackfilledActionOnlyWhenDetected ==
  (/\ rpc = "done" /\ response.status = 200
   /\ UpstreamOmits("recommended_action")
   /\ TypeOf(response.recommended_action) = "string"
   /\ response.recommended_action.str \in BackfilledActions)
    => (response.detected /\ response.urgency = "high")

\* the urgency class of a target description
TargetUrgency(target) ==
  AutoUrgency([detected |-> Bool(TRUE), urgency |-> Undefined], target).urgency.str

\* C36: the returned urgency is always one of low, medium, high, and when
\* the upstream response omits urgency it is the keyword-derived class of the
\* target description.
C36_UrgencyFromKeywords ==
  (rpc = "done" /\ response.status = 200) =>
    /\ response.urgency \in {"low", "medium", "high"}
    /\ UpstreamOmits("urgency") => response.urgency = TargetUrgency(request.target)

\* ------------------------------------------------------ failed inference
\* C37: an encodeImage or segment call whose inference fails throws to the
\* caller and leaves loadStatus, both sessions and the cached tensors as
\* they were.
C37_FailedCallLeavesEngine ==
  [][\A j \in 1..MaxOps :
       (/\ ops[j].op \in {"encodeImage", "segment"} /\ ops'[j] = IdleOp
        /\ sevent' = SvcEvent(ops[j].op, "failed"))
         => (svcState' = svcState /\ LoadStatus' = LoadStatus)]_vars

\* an encoder run has failed and the tensors of the run before it are kept
C37_Witness ==
  /\ sevent = SvcEvent("encodeImage", "failed")
  /\ LoadStatus = "READY_REAL" /\ encoderSession # NoSession
  /\ encodes = 2
  /\ imageEmbeddings = 1 /\ highResFeats0 = 1 /\ highResFeats1 = 1

\* ------------------------------------------------------- demo fallback
\* the service is READY_DEMO, or READY_REAL with no cached embedding
NoCachedEmbedding ==
  \/ LoadStatus = "READY_DEMO"
  \/ LoadStatus = "READY_REAL" /\ imageEmbeddings = NoTensor

\* C38: segment called in READY_DEMO, or in READY_REAL with no cached
\* embedding, returns a demo result instead of running the decoder or
\* failing; the decoder runs only when the service is READY_REAL with all
\* three cached tensors set.
C38_DemoFallbackNeverFails ==
  [][/\ (NoCachedEmbedding /\ Called("segment")) => sevent'.result = "demo"
     /\ \A j \in 1..MaxOps :
          (ops[j].op # "segment" /\ ops'[j].op = "segment")
            => /\ LoadStatus = "READY_REAL" /\ decoderSession # NoSession
               /\ imageEmbeddings # NoTensor
               /\ highResFeats0 # NoTensor /\ highResFeats1 # NoTensor]_vars

\* ------------------------------------------------------------ mask bounds
\* the bounds are the tight bounding box of the foreground pixels of mask
TightBounds(mask, bounds) ==
  LET fg == Foreground(mask)
  IN /\ \A px \in fg : /\ bounds.x <= px[1] /\ px[1] < bounds.x + bounds.width
                        /\ bounds.y <= px[2] /\ px[2] < bounds.y + bounds.height
     /\ \E px \in fg : px[1] = bounds.x
     /\ \E px \in fg : px[1] = bounds.x + bounds.width - 1
     /\ \E px \in fg : px[2] = bounds.y
     /\ \E px \in fg : px[2] = bounds.y + bounds.height - 1
     /\ bounds.x >= 0 /\ bounds.x + bounds.width <= mask.width
     /\ bounds.y >= 0 /\ bounds.y + bounds.height <= mask.height

\* C39: for every mask of a published result, findMaskBounds gave no bounds
\* exactly when the mask has no foreground pixel, and otherwise the tight
\* bounding box: every foreground pixel inside, a foreground pixel on each of
\* the four edges, the box within the mask's width and height.
C39_BoundsAreTight ==
  published # NotPublished =>
    \A i \in 1..Len(sresult.masks) :
      IF Foreground(sresult.masks[i]) = {}
      THEN published.bounds[i] = NoBounds
      ELSE /\ published.bounds[i] # NoBounds
           /\ TightBounds(sresult.masks[i], published.bounds[i])

\* a published result with an empty mask and a mask whose only foreground
\* pixel is the last one of the grid
C39_Witness ==
  /\ published # NotPublished
  /\ Len(sresult.masks) = 2
  /\ published.bounds[1] = NoBounds
  /\ published.bounds[2] = [x |-> GridW - 1, y |-> GridH - 1, width |-> 1, height |-> 1]

====
